---- MODULE Spec2Model ----
(***************************************************************************)
(* Model of app.py: the Streamlit "Inventory Location Mapper" backed by a  *)
(* Google Sheet tab.  Every process runs the script top to bottom on each  *)
(* user event (a Streamlit rerun); processes share the sheet and each has  *)
(* its own 60-second cache of the part_code -> row-number index.           *)
(*                                                                         *)
(* A string is a sequence of one-character strings, so that strip,         *)
(* startswith and ordering are computed and not assumed.  An optional      *)
(* value is None (the empty sequence) or Some(x) (the sequence <<x>>).     *)
(***************************************************************************)
EXTENDS Integers, Sequences, FiniteSets, TLC

VARIABLES sheet, cache, now, sess, ps

vars == <<sheet, cache, now, sess, ps>>

----------------------------------------------------------------------------
(* Bounds *)

\* number of timestamps the clock can hand out, hence of upserts in a run
MaxClock == 2
\* largest limit passed to prefix_suggestions when it is run on its own
MaxLimit == 3

\* the processes (app instances); each has one browser session
Procs == {"p1", "p2"}

----------------------------------------------------------------------------
(* Strings *)

None == <<>>
Some(x) == <<x>>

IsSpace(c) == c = " "

RECURSIVE lstrip(_)
lstrip(s) == IF s # <<>> /\ IsSpace(Head(s)) THEN lstrip(Tail(s)) ELSE s

RECURSIVE rstrip(_)
rstrip(s) ==
  IF s # <<>> /\ IsSpace(s[Len(s)]) THEN rstrip(SubSeq(s, 1, Len(s) - 1)) ELSE s

\* str.strip()
strip(s) == rstrip(lstrip(s))

\* str.startswith(prefix)
startswith(s, prefix) ==
  Len(prefix) <= Len(s) /\ SubSeq(s, 1, Len(prefix)) = prefix

\* code point order of the characters used in part codes
Ord(c) ==
  CASE c = " " -> 32 [] c = "1" -> 49 [] c = "2" -> 50
    [] c = "A" -> 65 [] c = "B" -> 66 [] OTHER -> 90

\* s < t in Python's string order
RECURSIVE StrLess(_, _)
StrLess(s, t) ==
  IF t = <<>> THEN FALSE
  ELSE IF s = <<>> THEN TRUE
  ELSE IF Head(s) # Head(t) THEN Ord(Head(s)) < Ord(Head(t))
  ELSE StrLess(Tail(s), Tail(t))

RECURSIVE Dedup(_, _)
Dedup(seq, seen) ==
  IF seq = <<>> THEN <<>>
  ELSE IF Head(seq) \in seen THEN Dedup(Tail(seq), seen)
  ELSE <<Head(seq)>> \o Dedup(Tail(seq), seen \cup {Head(seq)})

RECURSIVE MapStrip(_)
MapStrip(seq) ==
  IF seq = <<>> THEN <<>> ELSE <<strip(Head(seq))>> \o MapStrip(Tail(seq))

NotEmpty(s) == s # <<>>

----------------------------------------------------------------------------
(* Part codes (CSV) *)

\* the part_code column of part_codes.csv; an empty field is read as NA
PART_CODES_CSV == << <<"A","B","1">>, <<" ","A","B">>, <<>>, <<"A","B","1">>, <<" ">> >>

load_part_codes(csv) ==
  LET notna == SelectSeq(csv, NotEmpty)
      stripped == MapStrip(notna)
  IN  Dedup(SelectSeq(stripped, NotEmpty), {})

\* a membership test that misses the last code of the list
exact_match_skips_last(codes, q) == \E k \in 1..(Len(codes) - 1) : codes[k] = q

exact_match_in_series(codes, q) == \E k \in 1..Len(codes) : codes[k] = q

\* Series.head(n) for n >= 0
head(seq, n) == SubSeq(seq, 1, IF n < Len(seq) THEN n ELSE Len(seq))

prefix_suggestions(codes, prefix, limit) ==
  IF prefix = <<>> THEN <<>>
  ELSE LET Matches(c) == startswith(c, prefix)
       IN  head(SelectSeq(codes, Matches), limit)

----------------------------------------------------------------------------
(* The worksheet: a sequence of rows, a row a sequence of cells *)

H_part_code == <<"p","a","r","t","_","c","o","d","e">>
H_row == <<"r","o","w">>
H_rack == <<"r","a","c","k">>
H_shelf == <<"s","h","e","l","f">>
H_bin == <<"b","i","n">>
H_updated_at == <<"u","p","d","a","t","e","d","_","a","t">>
H_updated_by == <<"u","p","d","a","t","e","d","_","b","y">>

desired == <<H_part_code, H_row, H_rack, H_shelf, H_bin, H_updated_at, H_updated_by>>

\* drop the trailing empty cells, as the Sheets API does in a values read
RECURSIVE TrimCells(_)
TrimCells(r) ==
  IF r # <<>> /\ r[Len(r)] = <<>> THEN TrimCells(SubSeq(r, 1, Len(r) - 1)) ELSE r

\* drop the trailing empty rows of a values read
RECURSIVE TrimRows(_)
TrimRows(rows) ==
  IF rows # <<>> /\ rows[Len(rows)] = <<>>
  THEN TrimRows(SubSeq(rows, 1, Len(rows) - 1)) ELSE rows

\* cells of r padded with empty strings to n cells (never shortened)
Pad(r, n) == [k \in 1..(IF Len(r) < n THEN n ELSE Len(r)) |->
                IF k <= Len(r) THEN r[k] ELSE <<>>]

\* ws.row_values(n)
row_values(ws, n) == IF n <= Len(ws) THEN TrimCells(ws[n]) ELSE <<>>

\* ws.col_values(1): column A down to its last non-empty cell
col_values(ws) ==
  TrimCells([k \in 1..Len(ws) |-> IF ws[k] = <<>> THEN <<>> ELSE ws[k][1]])

\* ws.clear()
clear(ws) == <<>>

\* ws.append_row(values): after the last row that holds data
append_row(ws, values) == Append(TrimRows(ws), values)

\* ws.update("A{n}:G{n}", [values])
update(ws, n, values) ==
  [k \in 1..(IF Len(ws) < n THEN n ELSE Len(ws)) |->
     IF k = n THEN values ELSE IF k <= Len(ws) THEN ws[k] ELSE <<>>]

MaxWidth(ws) ==
  IF ws = <<>> THEN 0
  ELSE CHOOSE w \in {Len(TrimCells(ws[k])) : k \in 1..Len(ws)} :
         \A k \in 1..Len(ws) : Len(TrimCells(ws[k])) <= w

\* ws.get_all_values(): every row, padded to the width of the widest
get_all_values(ws) ==
  LET rows == TrimRows(ws)
  IN  [k \in 1..Len(rows) |-> Pad(TrimCells(rows[k]), MaxWidth(rows))]

ensure_locations_header(ws) ==
  IF row_values(ws, 1) # desired THEN append_row(clear(ws), desired) ELSE ws

----------------------------------------------------------------------------
(* The cached index.  A cache is None or Some(idx), idx a function from    *)
(* part codes to row numbers.                                              *)

\* idx.get(code): 0 stands for None, both are falsy
Get(idx, code) == IF code \in DOMAIN idx THEN idx[code] ELSE 0

\* lines 55-59: the dict built from column A, a later row replacing an earlier
IndexOfColumn(col) ==
  [c \in {strip(col[k]) : k \in 2..Len(col)} \ {<<>>} |->
     CHOOSE k \in 2..Len(col) :
       /\ strip(col[k]) = c
       /\ \A j \in 2..Len(col) : strip(col[j]) = c => j <= k]

\* lines 54-60, on the sheet ws1 that ensure_locations_header left
ReadIndex(ws1) == [ws |-> ws1, idx |-> IndexOfColumn(col_values(ws1))]

\* body of load_locations_index, run on a cache miss
BuildIndex(ws) == ReadIndex(ensure_locations_header(ws))

\* the index just built, as the call returns it and the cache keeps it
Loaded(b) == [ws |-> b.ws, cache |-> Some(b.idx), idx |-> b.idx]

\* load_locations_index() under st.cache_data(ttl=60)
load_locations_index(ws, c) ==
  IF c # None THEN [ws |-> ws, cache |-> c, idx |-> c[1]]
  ELSE Loaded(BuildIndex(ws))

\* lines 73-82: the row padded to A:G and returned as a dict
RowDict(row) ==
  [part_code |-> row[1], row |-> row[2], rack |-> row[3], shelf |-> row[4],
   bin |-> row[5], updated_at |-> row[6], updated_by |-> row[7]]

\* lines 69-82, for the row number the index gave
FetchRow(li, rownum) ==
  [ws |-> li.ws, cache |-> li.cache,
   result |-> IF rownum = 0 THEN None
              ELSE Some(RowDict(Pad(row_values(li.ws, rownum), 7)))]

\* lines 67-82, with the index li in hand
FetchWith(li, part_code) == FetchRow(li, Get(li.idx, part_code))

fetch_location_from_sheet(ws, c, part_code) ==
  FetchWith(load_locations_index(ensure_locations_header(ws), c), part_code)

\* datetime.now(timezone.utc).isoformat(timespec="seconds") at clock value t
isoformat(t) == <<ToString(t)>>

\* x or "" for an optional string x
OrEmpty(x) == IF x = None THEN <<>> ELSE x[1]

\* lines 110-116: update the indexed row or append, then clear the cache
WriteRow(ws, rownum, values) ==
  [ws |-> IF rownum # 0 THEN update(ws, rownum, values) ELSE append_row(ws, values),
   cache |-> None,
   values |-> values]

\* lines 109-116, with the index li in hand
UpsertWith(li, values) == WriteRow(li.ws, Get(li.idx, values[1]), values)

upsert_location_to_sheet(ws, c, t, part_code, row_loc, rack, shelf, bin_val, updated_by) ==
  UpsertWith(load_locations_index(ensure_locations_header(ws), c),
             <<part_code, row_loc, rack, shelf, OrEmpty(bin_val), isoformat(t),
               updated_by>>)

----------------------------------------------------------------------------
(* One run of the script for a user event *)

NoForm == [row |-> <<>>, rack |-> <<>>, shelf |-> <<>>, bin |-> <<>>]

E_row == <<"R">>
E_rack == <<"K">>
E_shelf == <<"S">>

\* a validation that reports the first blank field only
ValidateFirstOnly(f) ==
  IF strip(f.row) = <<>> THEN <<E_row>>
  ELSE IF strip(f.rack) = <<>> THEN <<E_rack>>
  ELSE IF strip(f.shelf) = <<>> THEN <<E_shelf>>
  ELSE <<>>

\* the errors list of the submit handler, lines 253-259
Validate(f) ==
  (IF strip(f.row) = <<>> THEN <<E_row>> ELSE <<>>)
  \o (IF strip(f.rack) = <<>> THEN <<E_rack>> ELSE <<>>)
  \o (IF strip(f.shelf) = <<>> THEN <<E_shelf>> ELSE <<>>)

\* a button whose click is still seen in the rerun of the form's submission
st_button_sticky(shown, ev) == shown /\ ev.type \in {"new", "submit"}

\* st.button: TRUE only in the rerun that its click triggered
st_button(shown, ev) == shown /\ ev.type = "new"

\* st.form_submit_button: TRUE only in the rerun that its click triggered
st_form_submit_button(shown, ev) == shown /\ ev.type = "submit"

\* st.selectbox: the user's choice, or the first option when none was made
st_selectbox(options, choice) == IF choice # None THEN choice[1] ELSE options[1]

\* the user's choice the selectbox holds in this run: the one just made, or
\* the earlier one when the widget was on the last screen with these options
WidgetChoice(s, ev, options) ==
  IF options = <<>> THEN None
  ELSE IF ev.type = "pick" THEN Some(ev.code)
  ELSE IF s.options = options THEN s.choice
  ELSE None

\* lines 207-218: no exact match; sugg is what prefix_suggestions returned
Suggested(s, ev, q, sugg, pressed) ==
  [q |-> q, sugg |-> sugg, choice |-> WidgetChoice(s, ev, sugg),
   offered |-> sugg = <<>>, typeFirst |-> pressed /\ q = <<>>,
   selected |-> IF sugg # <<>> THEN Some(st_selectbox(sugg, WidgetChoice(s, ev, sugg)))
                ELSE IF pressed /\ q # <<>> THEN Some(q)
                ELSE None,
   via |-> IF sugg # <<>> THEN "selectbox"
           ELSE IF pressed /\ q # <<>> THEN "new"
           ELSE "none"]

\* lines 207-218, the else branch
NoExact(s, ev, q, sugg) == Suggested(s, ev, q, sugg, st_button(sugg = <<>>, ev))

\* lines 200-218 for the trimmed query q
ResolveQuery(s, ev, q, codes) ==
  IF q # <<>> /\ exact_match_in_series(codes, q)
  THEN [q |-> q, sugg |-> <<>>, choice |-> None, offered |-> FALSE,
        typeFirst |-> FALSE, selected |-> Some(q), via |-> "exact"]
  ELSE NoExact(s, ev, q, prefix_suggestions(codes, q, 50))

\* lines 198-218: from the query to selected_part_code
Resolve(s, ev, query, codes) ==
  IF query = <<>>
  THEN [q |-> <<>>, sugg |-> <<>>, choice |-> None, offered |-> FALSE,
        typeFirst |-> FALSE, selected |-> None, via |-> "none"]
  ELSE ResolveQuery(s, ev, strip(query), codes)

\* lines 279-284: the record shown after the form
Shown(f1, submitted, form, errors, saved, up, f2) ==
  [ws |-> f2.ws, cache |-> f2.cache, existing |-> f1.result,
   submitted |-> submitted, form |-> form, errors |-> errors,
   saved |-> saved, written |-> IF saved THEN up.values ELSE <<>>,
   current |-> f2.result]

\* lines 279-280, after the form block left the sheet and cache of up
AfterForm(f1, submitted, form, errors, saved, up, selected) ==
  Shown(f1, submitted, form, errors, saved, up,
        fetch_location_from_sheet(up.ws, up.cache, selected))

\* lines 261-277: report the errors, or save
Handle(f1, t, selected, submitted, form, errors, updated_by) ==
  AfterForm(f1, submitted, form, errors, submitted /\ errors = <<>>,
            IF submitted /\ errors = <<>>
            THEN upsert_location_to_sheet(f1.ws, f1.cache, t, strip(selected),
                   strip(form.row), strip(form.rack), strip(form.shelf),
                   IF strip(form.bin) # <<>> THEN Some(strip(form.bin)) ELSE None,
                   updated_by)
            ELSE [ws |-> f1.ws, cache |-> f1.cache, values |-> <<>>],
            selected)

\* lines 242-277: the form and its submit handler
Form(f1, t, selected, submitted, form, updated_by) ==
  Handle(f1, t, selected, submitted, form,
         IF submitted THEN Validate(form) ELSE <<>>, updated_by)

\* lines 222-284: the location form for the selected part code
LocationForm(ws, c, t, selected, ev, updated_by) ==
  Form(fetch_location_from_sheet(ws, c, selected), t, selected,
       st_form_submit_button(TRUE, ev),
       IF st_form_submit_button(TRUE, ev) THEN ev.form ELSE NoForm, updated_by)

NoLocationForm(ws, c) ==
  [ws |-> ws, cache |-> c, existing |-> None, submitted |-> FALSE,
   form |-> NoForm, errors |-> <<>>, saved |-> FALSE, written |-> <<>>,
   current |-> None]

\* an export that takes values[2:] for the data rows
ExportedFromThird(values) ==
  IF Len(values) <= 1 THEN None
  ELSE Some([columns |-> values[1], rows |-> Tail(Tail(values))])

\* lines 293-303, on the values that get_all_values returned
Exported(values) ==
  IF Len(values) <= 1 THEN None
  ELSE Some([columns |-> values[1], rows |-> Tail(values)])

\* lines 289-305, on the sheet ws1 that ensure_locations_header left
DownloadFrom(ws1) == [ws |-> ws1, export |-> Exported(get_all_values(ws1))]

\* lines 289-305: the download button
Download(ws) == DownloadFrom(ensure_locations_header(ws))

\* what a run leaves: the sheet, the cache, the session and what it showed
RunResult(ev, query, s, r, lf, dl) ==
  [ws |-> dl.ws,
   cache |-> lf.cache,
   saved |-> lf.saved,
   sess |-> [query |-> query, name |-> s.name,
             options |-> r.sugg, choice |-> r.choice,
             offered |-> r.offered, selected |-> r.selected, via |-> r.via],
   out |-> [type |-> ev.type, q |-> r.q, sugg |-> r.sugg, choice |-> r.choice,
            typeFirst |-> r.typeFirst, selected |-> r.selected, via |-> r.via,
            existing |-> lf.existing, submitted |-> lf.submitted,
            errors |-> lf.errors, saved |-> lf.saved, written |-> lf.written,
            current |-> lf.current, clicked |-> ev.type = "download",
            export |-> dl.export]]

\* lines 286-305, after the form
Bottom(ev, query, s, r, lf) ==
  RunResult(ev, query, s, r, lf,
            IF ev.type = "download" THEN Download(lf.ws)
            ELSE [ws |-> lf.ws, export |-> None])

\* lines 220-305, for the resolution r
Body(ws1, c, t, s, ev, query, r) ==
  Bottom(ev, query, s, r,
         IF r.selected # None
         THEN LocationForm(ws1, c, t, r.selected[1], ev, strip(s.name))
         ELSE NoLocationForm(ws1, c))

\* lines 181-305, for the query in the search box
Page(ws1, c, t, s, ev, query) ==
  Body(ws1, c, t, s, ev, query,
       Resolve(s, ev, query, load_part_codes(PART_CODES_CSV)))

\* the whole script, lines 148-305, run by the session s on event ev
Script(ws, c, t, s, ev) ==
  Page(ensure_locations_header(ws), c, t, s, ev,
       IF ev.type = "query" THEN ev.text ELSE s.query)

----------------------------------------------------------------------------
(* Inputs *)

\* what a user types or scans into the search box
Queries == { <<"A","B">>, <<" ","A">>, <<"B"," ">>, <<" ">> }

\* what each process's user has typed into the name box
NameTyped == [i \in Procs |-> IF i = "p1" THEN <<"a"," ">> ELSE <<>>]

\* what a user submits in the location form: row, rack, shelf, bin
Forms ==
  { [row |-> <<" ","1">>, rack |-> <<"K">>, shelf |-> <<"S">>, bin |-> <<"B"," ">>],
    [row |-> <<>>, rack |-> <<" ">>, shelf |-> <<"S">>, bin |-> <<" ">>],
    [row |-> <<"1">>, rack |-> <<"K">>, shelf |-> <<" ">>, bin |-> <<>>] }

\* a tab left by an earlier layout of the sheet: no updated_by column
OldHeader == <<H_part_code, H_row, H_rack, H_shelf, H_bin, H_updated_at>>
OldSheet == <<OldHeader, << <<"A","B">>, <<"9">>, <<"K">>, <<"S">>, <<>>, <<"o">> >> >>

\* the tab when the app starts: freshly created and blank, or the old tab
InitialSheets == { <<>>, OldSheet }

Event(type, text, code, form) ==
  [type |-> type, text |-> text, code |-> code, form |-> form]

NewSession(i) ==
  [query |-> <<>>, name |-> NameTyped[i], options |-> <<>>, choice |-> None,
   offered |-> FALSE, selected |-> None, via |-> "none"]

PsOff == [csv |-> <<>>, codes |-> <<>>, prefix |-> <<>>, limit |-> 0,
          stage |-> "off", result |-> <<>>]

----------------------------------------------------------------------------
(* The application: processes rerunning the script on user events *)

Init ==
  /\ sheet \in InitialSheets
  /\ cache = [i \in Procs |-> None]
  /\ now = 0
  /\ sess = [i \in Procs |-> NewSession(i)]
  /\ ps = PsOff

\* process i reruns the script from session state s on event ev
Rerun(i, s, ev) ==
  LET r == Script(sheet, cache[i], now, s, ev)
  IN  /\ r.saved => now < MaxClock
      /\ sheet' = r.ws
      /\ cache' = [cache EXCEPT ![i] = r.cache]
      /\ now' = IF r.saved THEN now + 1 ELSE now
      /\ sess' = [sess EXCEPT ![i] = r.sess]
      /\ UNCHANGED ps

TypeQuery(i) ==
  \E text \in Queries \cup {<<>>} :
    /\ text # sess[i].query
    /\ Rerun(i, sess[i], Event("query", text, <<>>, NoForm))

Pick(i) ==
  /\ sess[i].options # <<>>
  /\ \E k \in 1..Len(sess[i].options) :
       /\ sess[i].options[k] # st_selectbox(sess[i].options, sess[i].choice)
       /\ Rerun(i, sess[i], Event("pick", <<>>, sess[i].options[k], NoForm))

PressNew(i) ==
  /\ sess[i].offered
  /\ Rerun(i, sess[i], Event("new", <<>>, <<>>, NoForm))

SubmitEvent(form) == Event("submit", <<>>, <<>>, form)

Submit(i) ==
  /\ sess[i].selected # None
  /\ \E form \in Forms : Rerun(i, sess[i], SubmitEvent(form))

DownloadEvent == Event("download", <<>>, <<>>, NoForm)

ClickDownload(i) == \E ev \in {DownloadEvent} : Rerun(i, sess[i], ev)

\* the 60 seconds of the index cache have passed
CacheExpire(i) ==
  /\ cache[i] # None
  /\ cache' = [cache EXCEPT ![i] = None]
  /\ UNCHANGED <<sheet, now, sess, ps>>

Next ==
  \E i \in Procs :
    \/ TypeQuery(i)
    \/ Pick(i)
    \/ PressNew(i)
    \/ Submit(i)
    \/ ClickDownload(i)
    \/ CacheExpire(i)

Spec == Init /\ [][Next]_vars

----------------------------------------------------------------------------
(* prefix_suggestions on its own: a master list is imported, then queried *)

A1 == <<"A","1">>
A2 == <<"A","2">>
B1 == <<"B","1">>

\* part_code columns of master lists, in the order of the file
PsCsvs ==
  { <<>>, <<A1, A2>>, <<A2, A1>>, <<A1, A2, B1>>, <<A2, B1, A1>>,
    <<B1, A2, <<>>, A1, A2>>, <<<<" ","A","2">>, <<"A">>, A1>>,
    <<B1, <<"A","1"," ">>, <<"A","1","2">>>> }

PsPrefixes == { <<>>, <<"A">>, A1, <<"B">>, <<"2">> }

InitPS ==
  /\ sheet = <<>>
  /\ cache = [i \in Procs |-> None]
  /\ now = 0
  /\ sess = [i \in Procs |-> NewSession(i)]
  /\ \E csv \in PsCsvs, prefix \in PsPrefixes, limit \in 0..MaxLimit :
       ps = [csv |-> csv, codes |-> <<>>, prefix |-> prefix, limit |-> limit,
             stage |-> "start", result |-> <<>>]

ImportCodes ==
  /\ ps.stage = "start"
  /\ ps' = [ps EXCEPT !.codes = load_part_codes(ps.csv), !.stage = "loaded"]
  /\ UNCHANGED <<sheet, cache, now, sess>>

Suggest ==
  /\ ps.stage = "loaded"
  /\ ps' = [ps EXCEPT !.result = prefix_suggestions(ps.codes, ps.prefix, ps.limit),
                      !.stage = "suggested"]
  /\ UNCHANGED <<sheet, cache, now, sess>>

NextPS == ImportCodes \/ Suggest

SpecPS == InitPS /\ [][NextPS]_vars

----------------------------------------------------------------------------
(* Properties *)

\* the master list the script loads, as a sequence and as a set
Codes == load_part_codes(PART_CODES_CSV)
CodeSet == {Codes[k] : k \in 1..Len(Codes)}

\* the data rows of ws, and those that hold a record of part code p
DataRows(ws) == {k \in 2..Len(ws) : ws[k] # <<>>}
RecordsOf(ws, p) == {k \in DataRows(ws) : ws[k][1] = p}
RecordedCodes(ws) == {ws[k][1] : k \in DataRows(ws)}

\* s is empty or all spaces
IsBlank(s) == \A k \in 1..Len(s) : s[k] = " "

\* the run that process i's submission of form would make in this state
SubmitRun(i, form) == Script(sheet, cache[i], now, sess[i], SubmitEvent(form))

\* the run that process i's click on the download button would make
DownloadRun(i) == Script(sheet, cache[i], now, sess[i], DownloadEvent)

\* C1: whatever upserts the sessions of the processes have made, with caches
\* fresh or stale, the sheet holds at most one data row per part code.
C1_AtMostOneRecord ==
  \A p \in RecordedCodes(sheet) : Cardinality(RecordsOf(sheet, p)) <= 1

\* C2: when a submission saves, the fetch that follows the upsert in the same
\* process returns a record with the row, rack, shelf, bin and updated_by
\* that the upsert was given, whatever index the process had cached.
C2_ReadYourWrites ==
  \A i \in Procs, form \in Forms :
    LET r == SubmitRun(i, form)
    IN  (sess[i].selected # None /\ r.saved) =>
          /\ r.out.current # None
          /\ r.out.current[1].row = strip(form.row)
          /\ r.out.current[1].rack = strip(form.rack)
          /\ r.out.current[1].shelf = strip(form.shelf)
          /\ r.out.current[1].bin = strip(form.bin)
          /\ r.out.current[1].updated_by = strip(sess[i].name)

\* the number of required fields of f that are blank
BlankCount(f) ==
  (IF IsBlank(f.row) THEN 1 ELSE 0) + (IF IsBlank(f.rack) THEN 1 ELSE 0)
  + (IF IsBlank(f.shelf) THEN 1 ELSE 0)

ErrorSet(errors) == {errors[k] : k \in 1..Len(errors)}

C4_ExactPrecedence ==
  \A i \in Procs :
    (~IsBlank(sess[i].query) /\ strip(sess[i].query) \in CodeSet) =>
      /\ sess[i].selected = Some(strip(sess[i].query))
      /\ sess[i].via = "exact"
      /\ sess[i].options = <<>>
      /\ ~sess[i].offered

\* the query on a screen is a code of the list and a proper prefix of another
C4_Witness ==
  \E i \in Procs :
    /\ sess[i].via = "exact"
    /\ \E c \in CodeSet :
         c # strip(sess[i].query) /\ startswith(c, strip(sess[i].query))

\* the matches of prefix in codes in ascending order, cut to limit
SortedMatches(codes, prefix, limit) ==
  LET M == {codes[k] : k \in {j \in 1..Len(codes) : startswith(codes[j], prefix)}}
      sorted == [k \in 1..Cardinality(M) |->
                   CHOOSE c \in M : Cardinality({d \in M : StrLess(d, c)}) = k - 1]
  IN  IF prefix = <<>> THEN <<>> ELSE head(sorted, limit)

\* C5: prefix_suggestions returns the empty list for the empty prefix, and
\* otherwise the first limit codes, in ascending order, of those of the
\* master list that start with the prefix, whatever the order of import.
C5_SortedPrefixes ==
  ps.stage = "suggested" => ps.result = SortedMatches(ps.codes, ps.prefix, ps.limit)

C7_NoAutoSelect ==
  \A i \in Procs :
    (sess[i].options # <<>> /\ sess[i].choice = None) => sess[i].selected = None

\* C8: a part code that has a location record keeps one in every step.
C8_NeverDeleted ==
  [][\A p \in RecordedCodes(sheet) : RecordsOf(sheet', p) # {}]_vars

\* the entries of an export for part code c
ExportEntries(export, c) ==
  IF export = None THEN {}
  ELSE {k \in 1..Len(export[1].rows) : export[1].rows[k][1] = c}

\* C9: the export holds exactly one entry for every code of the master list,
\* those without a location record included.
C9_ExportEveryCode ==
  \A i \in Procs, c \in CodeSet :
    Cardinality(ExportEntries(DownloadRun(i).out.export, c)) = 1

\* C9 as amended: the export holds the data rows of the sheet, one entry for
\* each in the order of the sheet, under the header of the sheet; a code
\* without a location record has no entry, and a sheet without data rows
\* gives no export.
C9_ExportSavedRows ==
  \A i \in Procs :
    LET r == DownloadRun(i)
    IN  /\ Len(r.ws) <= 1 => r.out.export = None
        /\ Len(r.ws) > 1 =>
             /\ r.out.export # None
             /\ r.out.export[1].columns = r.ws[1]
             /\ Len(r.out.export[1].rows) = Len(r.ws) - 1
             /\ \A k \in 1..(Len(r.ws) - 1) :
                  TrimCells(r.out.export[1].rows[k]) = TrimCells(r.ws[k + 1])
        /\ \A c \in CodeSet :
             RecordsOf(r.ws, c) = {} => ExportEntries(r.out.export, c) = {}

\* a download over a sheet that holds a record of one code of the master
\* list and none of another
C9_Witness ==
  \E i \in Procs :
    /\ DownloadRun(i).out.export # None
    /\ \E c \in CodeSet : RecordsOf(sheet, c) # {}
    /\ \E c \in CodeSet : RecordsOf(sheet, c) = {}

\* C10: a query without exact match or suggestion is selected only once the
\* button is pressed, and from then on the submission of a form with row,
\* rack and shelf filled in writes a location record for it.
C10_NewCodeSaved ==
  \A i \in Procs :
    /\ (sess[i].offered /\ sess[i].via # "new") => sess[i].selected = None
    /\ sess[i].via = "new" =>
         /\ sess[i].selected = Some(strip(sess[i].query))
         /\ \A form \in Forms :
              LET r == SubmitRun(i, form)
              IN  BlankCount(form) = 0 =>
                    r.saved /\ RecordsOf(r.ws, strip(sess[i].query)) # {}

====
